---- MODULE Spec2Model ----
(***************************************************************************)
(* Phaser.Physics.Arcade.SeparateX: separation of two overlapping Arcade   *)
(* Physics bodies on the X axis (src/src/physics/arcade/SeparateX.js).     *)
(*                                                                         *)
(* Numbers.  Velocities, bounce factors and velocity thresholds are        *)
(* fixed-point integers: the integer n stands for the number n / Unit.     *)
(* Positions, overlaps and shares are whole pixels.  Masses are whole      *)
(* numbers.                                                                *)
(***************************************************************************)
EXTENDS Integers, FiniteSets

(***************************************************************************)
(* Number representation                                                   *)
(***************************************************************************)

\* The fixed-point representation of the number 1.
Unit == 2 * 2 * 2

\* Math.abs
Abs(a) == IF a < 0 THEN -a ELSE a

\* Division of a by b > 0, rounded toward zero (rounding is symmetric in the
\* sign of a, as in IEEE arithmetic).
Quot(a, b) == IF a >= 0 THEN a \div b ELSE -((-a) \div b)

\* Product of two fixed-point numbers.
Times(a, b) == Quot(a * b, Unit)

RECURSIVE Bisect(_, _, _)
Bisect(n, lo, hi) ==
    IF hi - lo <= 1 THEN lo
    ELSE LET mid == (lo + hi) \div 2
         IN IF mid * mid <= n THEN Bisect(n, mid, hi) ELSE Bisect(n, lo, mid)

\* Math.sqrt on a non-negative integer, rounded down.
Sqrt(n) == Bisect(n, 0, n + 1)

\* (x > 0) ? 1 : -1
SignOf(x) == IF x > 0 THEN 1 ELSE -1

(***************************************************************************)
(* Constants of ./const                                                    *)
(***************************************************************************)

DYNAMIC_BODY == "DYNAMIC_BODY"
STATIC_BODY == "STATIC_BODY"
FACING_LEFT == "FACING_LEFT"
FACING_RIGHT == "FACING_RIGHT"

(***************************************************************************)
(* Bounds of the model                                                     *)
(***************************************************************************)

\* Largest overlap, in pixels, the overlap probe reports.
MaxOverlap == 1

(***************************************************************************)
(* Body methods used by SeparateX                                          *)
(***************************************************************************)

\* body.isBlockedLeft()
isBlockedLeft(body) == body.blockedLeft

\* body.isBlockedRight()
isBlockedRight(body) == body.blockedRight

\* body.isBlockedX(): the body is flagged blocked on the X axis.
isBlockedX(body) == body.blockedLeft \/ body.blockedRight

\* body.movingX(): nonzero x velocity and not blocked in that direction.
movingX(body) ==
    /\ body.vx # 0
    /\ ~(body.vx < 0 /\ body.blockedLeft)
    /\ ~(body.vx > 0 /\ body.blockedRight)

\* body.setBlockedLeft(collisionInfo, other)
setBlockedLeft(body) == [body EXCEPT !.blockedLeft = TRUE]

\* body.setBlockedRight(collisionInfo, other)
setBlockedRight(body) == [body EXCEPT !.blockedRight = TRUE]

\* body.getMoveX(amount): the distance the body is translated for its share.
getMoveX(body, amount) == amount

\* body.wake()
wake(body) == [body EXCEPT !.sleeping = FALSE]

(***************************************************************************)
(* SeparateX, section by section                                           *)
(***************************************************************************)

\* body1Immovable / body2Immovable
Immovable(body) == body.physicsType = STATIC_BODY \/ body.immovable

\* The condition under which no separation takes place.
Aborted(body1, body2, overlapOnly, collisionInfo) ==
    \/ ~collisionInfo.intersects
    \/ overlapOnly
    \/ (Immovable(body1) /\ Immovable(body2))
    \/ body1.customSeparateX
    \/ body2.customSeparateX

\* The value returned when no separation takes place.
AbortedResult(body1, body2, collisionInfo) ==
    \/ (collisionInfo.intersects /\ collisionInfo.overlapY # 0)
    \/ (body1.embedded /\ body2.embedded)

\* Exchanged without the sign of the velocity in the equal-mass case.
ExchangedUnsigned(x, mass, ownMass) ==
    IF ownMass = mass
    THEN Abs(x)
    ELSE Sqrt(Quot(x * x * mass, ownMass)) * SignOf(x)

\* bnx1 / bnx2: the velocity a body takes over from the other body, whose
\* velocity is x and mass is mass, when its own mass is ownMass.
Exchanged(x, mass, ownMass) ==
    IF ownMass = mass
    THEN Abs(x) * SignOf(x)
    ELSE Sqrt(Quot(x * x * mass, ownMass)) * SignOf(x)

\* nx1 / nx2 in the branch where both bodies are moving.
Rebound(bnx, avg, bounce) == avg + Times(bnx - avg, bounce)

\* Nudge with the two faces taken for each other.
NudgeToward(leftFace) == IF leftFace THEN -Unit ELSE Unit

\* The velocity given to a moving body that hits a rideable body.
Nudge(leftFace) == IF leftFace THEN Unit ELSE -Unit

\* WallBounce with the bounced velocity added instead of subtracted.
WallBounceAdded(other, x, bounce) == other + Times(x, bounce)

\* The velocity given to a moving body (velocity x, bounce bounce) that hits
\* a body that is not moving and has velocity other.
WallBounce(other, x, bounce) == other - Times(x, bounce)

\* The new velocities nx1, nx2 chosen from the moving state of the bodies.
Impact(body1, body2, leftFace) ==
    LET x1 == body1.vx
        x2 == body2.vx
        moving1 == movingX(body1)
        moving2 == movingX(body2)
        bnx1 == Exchanged(x2, body2.mass, body1.mass)
        bnx2 == Exchanged(x1, body1.mass, body2.mass)
        avg == Quot(bnx1 + bnx2, 2)
    IN  IF moving1 /\ moving2
        THEN [nx1 |-> Rebound(bnx1, avg, body1.bounce),
              nx2 |-> Rebound(bnx2, avg, body2.bounce)]
        ELSE IF ~moving1 /\ moving2
        THEN [nx1 |-> x1,
              nx2 |-> IF body1.rideable THEN Nudge(leftFace)
                      ELSE WallBounce(x1, x2, body2.bounce)]
        ELSE IF moving1 /\ ~moving2
        THEN [nx1 |-> IF body2.rideable THEN Nudge(leftFace)
                      ELSE WallBounce(x2, x1, body1.bounce),
              nx2 |-> x2]
        ELSE [nx1 |-> 0, nx2 |-> 0]

\* Degenerate with the overlap compared the wrong way round.
DegenerateNoOverlap(totalA, totalB, overlap) == totalA = 0 /\ totalB = 0 /\ overlap = 0

\* Neither body is given a share of a nonzero overlap.
Degenerate(totalA, totalB, overlap) == totalA = 0 /\ totalB = 0 /\ overlap # 0

\* flip1 / flip2
Flip(x, nx) == (x < 0 /\ nx > 0) \/ (x > 0 /\ nx < 0)

\* The new velocity after the flip-flop check.
Damped(body, x, nx) ==
    IF ~body.sleeping /\ Flip(x, nx) /\ Abs(nx) < body.minVelocity THEN 0 ELSE nx

\* body.y += body.getMoveX(total)
Translate(body, total) == [body EXCEPT !.y = @ + getMoveX(body, total)]

\* The effect of one position / blocked update: the body, its new velocity,
\* how many times it was translated and which faces were set blocked.
Effect(body, nx, moved, setLeft, setRight) ==
    [body |-> body, nx |-> nx, moved |-> moved, setLeft |-> setLeft, setRight |-> setRight]

\* "If Body cannot move, it doesn't matter what new velocity it has"
CannotMove(body, nx) ==
    \/ (body.sleeping /\ (nx < 0 /\ isBlockedLeft(body)))
    \/ (nx > 0 /\ isBlockedRight(body))

\* Position and blocked state of body1 (if (nx1 !== 0) ... else if (body1.moves)).
UpdateBody1(body1, body2, nx1, leftFace, totalA) ==
    IF nx1 # 0
    THEN LET blockedBy2 == IF leftFace THEN isBlockedLeft(body2) ELSE isBlockedRight(body2)
             b == IF blockedBy2
                  THEN (IF leftFace THEN setBlockedLeft(body1) ELSE setBlockedRight(body1))
                  ELSE Translate(body1, totalA)
         IN  Effect(b, IF CannotMove(b, nx1) THEN 0 ELSE nx1,
                    IF blockedBy2 THEN 0 ELSE 1,
                    blockedBy2 /\ leftFace, blockedBy2 /\ ~leftFace)
    ELSE IF body1.moves
    THEN LET add == totalA # 0 /\ ~isBlockedRight(body1)
             a == IF add THEN Translate(body1, totalA) ELSE body1
             blockedBy2 == IF leftFace THEN isBlockedLeft(body2) ELSE isBlockedRight(body2)
             b == IF blockedBy2
                  THEN (IF leftFace THEN setBlockedLeft(a) ELSE setBlockedRight(a))
                  ELSE a
         IN  Effect(b, nx1, IF add THEN 1 ELSE 0,
                    blockedBy2 /\ leftFace, blockedBy2 /\ ~leftFace)
    ELSE Effect(body1, nx1, 0, FALSE, FALSE)

\* Position and blocked state of body2 (if (nx2 !== 0) ... else if (body2.moves));
\* body1 is body1 as UpdateBody1 left it.
UpdateBody2(body1, body2, nx2, leftFace, totalB) ==
    IF nx2 # 0
    THEN LET blockedBy1 == IF leftFace THEN isBlockedRight(body1) ELSE isBlockedLeft(body1)
             b == IF blockedBy1
                  THEN (IF leftFace THEN setBlockedRight(body2) ELSE setBlockedLeft(body2))
                  ELSE Translate(body2, totalB)
         IN  Effect(b, IF CannotMove(b, nx2) THEN 0 ELSE nx2,
                    IF blockedBy1 THEN 0 ELSE 1,
                    blockedBy1 /\ ~leftFace, blockedBy1 /\ leftFace)
    ELSE IF body2.moves
    THEN LET add == /\ totalB # 0
                    /\ IF leftFace THEN ~isBlockedRight(body2) ELSE ~isBlockedLeft(body2)
             a == IF add THEN Translate(body2, totalB) ELSE body2
             blockedBy1 == IF leftFace THEN isBlockedRight(body1) ELSE isBlockedLeft(body1)
             b == IF blockedBy1
                  THEN (IF leftFace THEN setBlockedRight(a) ELSE setBlockedLeft(a))
                  ELSE a
         IN  Effect(b, nx2, IF add THEN 1 ELSE 0,
                    blockedBy1 /\ ~leftFace, blockedBy1 /\ leftFace)
    ELSE Effect(body2, nx2, 0, FALSE, FALSE)

\* if (body.isBlockedX()) { nx = 0; }
Unblocked(body, nx) == IF isBlockedX(body) THEN 0 ELSE nx

\* StaysAsleep with a velocity at the threshold taken as too small.
StaysAsleepAtThreshold(body, nx) == Abs(nx) <= body.minVelocity

\* A sleeping body stays asleep unless its new velocity is enough to wake it.
StaysAsleep(body, nx) == Abs(nx) < body.minVelocity

\* "Wakey, wakey?": the body, its new velocity and whether wake() was called.
Wakey(body, nx) ==
    IF body.sleeping
    THEN IF StaysAsleep(body, nx)
         THEN [body |-> body, nx |-> 0, woke |-> FALSE]
         ELSE [body |-> wake(body), nx |-> nx, woke |-> TRUE]
    ELSE [body |-> body, nx |-> nx, woke |-> FALSE]

\* What a call leaves behind besides the bodies: whether it returned (or threw),
\* the value returned, the stage it ended at, the new velocities after the
\* velocity resolution (rx) and on entry to the sleep step (sx), the wake()
\* calls, the number of translations and the setBlocked calls per body.
Outcome(returned, result, stage, rx1, rx2, sx1, sx2, woke1, woke2, moved1, moved2, setLeft1, setRight1, setLeft2, setRight2) ==
    [returned |-> returned, result |-> result, stage |-> stage,
     rx1 |-> rx1, rx2 |-> rx2, sx1 |-> sx1, sx2 |-> sx2,
     woke1 |-> woke1, woke2 |-> woke2, moved1 |-> moved1, moved2 |-> moved2,
     setLeft1 |-> setLeft1, setRight1 |-> setRight1,
     setLeft2 |-> setLeft2, setRight2 |-> setRight2]

\* The outcome of a call that did not get past stage with velocities nx1, nx2.
Short(returned, result, stage, nx1, nx2) ==
    Outcome(returned, result, stage, nx1, nx2, nx1, nx2, FALSE, FALSE,
            0, 0, FALSE, FALSE, FALSE, FALSE)

\* SeparateX(body1, body2, overlapOnly, bias), given the collisionInfo that
\* GetOverlapX returns for the call and whether this.world is an object.
SeparateX(body1, body2, overlapOnly, collisionInfo, thisWorld) ==
    LET overlap == collisionInfo.overlapY
        leftFace == collisionInfo.face = FACING_LEFT
        x1 == body1.vx
        x2 == body2.vx
    IN  IF Aborted(body1, body2, overlapOnly, collisionInfo)
        THEN \* console.log(this.world._frame, ...) throws a TypeError when
             \* this.world is undefined
             [body1 |-> body1, body2 |-> body2,
              out |-> IF thisWorld
                      THEN Short(TRUE, AbortedResult(body1, body2, collisionInfo),
                                 "aborted", x1, x2)
                      ELSE Short(FALSE, FALSE, "aborted", x1, x2)]
        ELSE
        LET new == Impact(body1, body2, leftFace)
            totalA == collisionInfo.share1
            totalB == collisionInfo.share2
        IN  IF Degenerate(totalA, totalB, overlap)
            THEN [body1 |-> [body1 EXCEPT !.vx = 0],
                  body2 |-> [body2 EXCEPT !.vx = 0],
                  out |-> Short(TRUE, TRUE, "degenerate", new.nx1, new.nx2)]
            ELSE
            LET e1 == UpdateBody1(body1, body2, Damped(body1, x1, new.nx1), leftFace, totalA)
                e2 == UpdateBody2(e1.body, body2, Damped(body2, x2, new.nx2), leftFace, totalB)
                sx1 == Unblocked(e1.body, e1.nx)
                sx2 == Unblocked(e2.body, e2.nx)
                w1 == Wakey(e1.body, sx1)
                w2 == Wakey(e2.body, sx2)
            IN  [body1 |-> [w1.body EXCEPT !.vx = w1.nx],
                 body2 |-> [w2.body EXCEPT !.vx = w2.nx],
                 out |-> Outcome(TRUE, TRUE, "separated", new.nx1, new.nx2, sx1, sx2,
                                 w1.woke, w2.woke, e1.moved, e2.moved,
                                 e1.setLeft, e1.setRight, e2.setLeft, e2.setRight)]

(***************************************************************************)
(* GetOverlapX                                                             *)
(***************************************************************************)

\* The results GetOverlapX can return for two bodies: an immovable body is
\* given no share, and the shares of two movable bodies add up to the overlap.
CollisionInfos(body1, body2) ==
    { c \in [intersects : BOOLEAN, face : {FACING_LEFT, FACING_RIGHT},
             overlapY : 0..MaxOverlap, share1 : 0..MaxOverlap, share2 : 0..MaxOverlap] :
        /\ Immovable(body1) => c.share1 = 0
        /\ Immovable(body2) => c.share2 = 0
        /\ c.share1 + c.share2 <= c.overlapY
        /\ (~Immovable(body1) /\ ~Immovable(body2)) => c.share1 + c.share2 = c.overlapY }

(***************************************************************************)
(* Bodies                                                                  *)
(***************************************************************************)

Speeds == {-5 * Unit, 0, 5 * Unit}

\* Bodies that differ in what decides whether a separation takes place.
ConfiguredBodies ==
    [x : {0}, y : {0}, vx : Speeds,
     physicsType : {DYNAMIC_BODY, STATIC_BODY}, immovable : BOOLEAN,
     customSeparateX : BOOLEAN, embedded : BOOLEAN,
     mass : {1}, bounce : {Unit},
     blockedLeft : {FALSE}, blockedRight : {FALSE},
     sleeping : {FALSE}, minVelocity : {Unit}, rideable : {FALSE}, moves : {TRUE}]

\* Dynamic bodies that differ in mass, bounce and velocity threshold.
ImpactBodies ==
    [x : {0}, y : {0}, vx : Speeds,
     physicsType : {DYNAMIC_BODY}, immovable : {FALSE},
     customSeparateX : {FALSE}, embedded : {FALSE},
     mass : {1, 4}, bounce : {0, Unit \div 2, Unit},
     blockedLeft : {FALSE}, blockedRight : {FALSE},
     sleeping : {FALSE}, minVelocity : {Unit, 8 * Unit}, rideable : {FALSE}, moves : {TRUE}]

\* Dynamic bodies that may be rideable or asleep.
PlatformBodies ==
    [x : {0}, y : {0}, vx : Speeds,
     physicsType : {DYNAMIC_BODY}, immovable : {FALSE},
     customSeparateX : {FALSE}, embedded : {FALSE},
     mass : {1}, bounce : {0, Unit},
     blockedLeft : {FALSE}, blockedRight : {FALSE},
     sleeping : BOOLEAN, minVelocity : {Unit, 8 * Unit}, rideable : BOOLEAN, moves : {TRUE}]

\* Dynamic bodies that may be blocked, asleep or not under physics control.
BlockedBodies ==
    [x : {0}, y : {0}, vx : Speeds,
     physicsType : {DYNAMIC_BODY}, immovable : {FALSE},
     customSeparateX : {FALSE}, embedded : {FALSE},
     mass : {1}, bounce : {Unit},
     blockedLeft : BOOLEAN, blockedRight : BOOLEAN,
     sleeping : BOOLEAN, minVelocity : {Unit}, rideable : {FALSE}, moves : BOOLEAN]

\* The bodies a run starts from.
Bodies == ConfiguredBodies \cup ImpactBodies \cup PlatformBodies \cup BlockedBodies

(***************************************************************************)
(* The state machine: the world calls SeparateX on a pair of bodies        *)
(***************************************************************************)

VARIABLES
    body1,          \* the first body
    body2,          \* the second body
    called,         \* SeparateX has been called
    pre1,           \* body1 before the last call
    pre2,           \* body2 before the last call
    overlapOnly,    \* the overlapOnly argument of the last call
    collisionInfo,  \* what GetOverlapX returned in the last call
    out             \* the outcome of the last call

vars == <<body1, body2, called, pre1, pre2, overlapOnly, collisionInfo, out>>

Init ==
    /\ body1 \in Bodies
    /\ body2 \in Bodies
    /\ called = FALSE
    /\ pre1 = body1
    /\ pre2 = body2
    /\ overlapOnly = FALSE
    /\ collisionInfo = [intersects |-> FALSE, face |-> FACING_LEFT,
                        overlapY |-> 0, share1 |-> 0, share2 |-> 0]
    /\ out = Short(TRUE, FALSE, "none", body1.vx, body2.vx)

\* The call SeparateX(body1, body2, only, bias) the world makes for the pair
\* in one step of the simulation.
Separate ==
    /\ ~called
    /\ \E info \in CollisionInfos(body1, body2) :
       \E only \in BOOLEAN, thisWorld \in BOOLEAN :
        LET r == SeparateX(body1, body2, only, info, thisWorld)
        IN  /\ body1' = r.body1
            /\ body2' = r.body2
            /\ called' = TRUE
            /\ pre1' = body1
            /\ pre2' = body2
            /\ overlapOnly' = only
            /\ collisionInfo' = info
            /\ out' = r.out

Next == Separate

Spec == Init /\ [][Next]_vars

(***************************************************************************)
(* Vocabulary of the properties, over the last call                        *)
(***************************************************************************)

\* The overlap the probe reported.
Overlap == collisionInfo.overlapY

\* The contact face is the left one.
LeftContact == collisionInfo.face = FACING_LEFT

\* A body is immovable: static type or immovable flag.
IsImmovable(body) == body.physicsType = STATIC_BODY \/ body.immovable

\* The call is one for which no separation is to take place.
NoSeparation ==
    \/ ~collisionInfo.intersects
    \/ overlapOnly
    \/ (IsImmovable(pre1) /\ IsImmovable(pre2))
    \/ pre1.customSeparateX
    \/ pre2.customSeparateX

\* The probe reported a nonzero overlap of which neither body has a share.
ZeroShares == Overlap # 0 /\ collisionInfo.share1 = 0 /\ collisionInfo.share2 = 0

\* A body has a nonzero x velocity and is not blocked in its direction.
IsMoving(body) ==
    \/ (body.vx < 0 /\ ~body.blockedLeft)
    \/ (body.vx > 0 /\ ~body.blockedRight)

\* A body is blocked on a face of the X axis.
IsBlocked(body) == body.blockedLeft \/ body.blockedRight

\* Position, blocked faces and sleeping flag of a body are those of before.
SamePlace(body, pre) == body.x = pre.x /\ body.y = pre.y
SameBlocked(body, pre) ==
    body.blockedLeft = pre.blockedLeft /\ body.blockedRight = pre.blockedRight

(***************************************************************************)
(* C1                                                                      *)
(***************************************************************************)

\* C1: a call for which no separation is to take place (no intersection,
\* overlapOnly, both bodies immovable, or a body with customSeparateX) changes
\* no field of either body and returns true exactly when (intersects and
\* overlap # 0) or both bodies are embedded, and false otherwise.
C1_EarlyExit ==
    (called /\ NoSeparation) =>
        /\ body1 = pre1
        /\ body2 = pre2
        /\ out.returned
        /\ out.result = ((collisionInfo.intersects /\ Overlap # 0)
                         \/ (pre1.embedded /\ pre2.embedded))

(***************************************************************************)
(* C2                                                                      *)
(***************************************************************************)

\* C2: when the probe reports no intersection, a call that returns returns
\* false, and it leaves the velocity and position of both bodies unchanged;
\* so does the same call made again on the bodies it left.
C2_NoIntersection ==
    (called /\ ~collisionInfo.intersects) =>
        /\ out.returned => ~out.result
        /\ body1.vx = pre1.vx /\ SamePlace(body1, pre1)
        /\ body2.vx = pre2.vx /\ SamePlace(body2, pre2)
        /\ LET again == SeparateX(body1, body2, overlapOnly, collisionInfo, out.returned)
           IN  again.body1 = body1 /\ again.body2 = body2

(***************************************************************************)
(* C3                                                                      *)
(***************************************************************************)

\* C3: a call changes neither the x velocity nor the position of an immovable
\* body, whatever that body's velocity is.
C3_ImmovableUntouched ==
    called =>
        /\ IsImmovable(pre1) => (body1.vx = pre1.vx /\ SamePlace(body1, pre1))
        /\ IsImmovable(pre2) => (body2.vx = pre2.vx /\ SamePlace(body2, pre2))

(***************************************************************************)
(* C4                                                                      *)
(***************************************************************************)

\* What C4 says of a call: both x velocities become 0, the call returns true,
\* and position, blocked faces and sleeping flags stay as they were.
ZeroedInPlace ==
    /\ body1.vx = 0 /\ body2.vx = 0
    /\ out.returned /\ out.result
    /\ SamePlace(body1, pre1) /\ SamePlace(body2, pre2)
    /\ SameBlocked(body1, pre1) /\ SameBlocked(body2, pre2)
    /\ body1.sleeping = pre1.sleeping /\ body2.sleeping = pre2.sleeping
    /\ ~out.woke1 /\ ~out.woke2

\* C4 as claimed: every call (that returns) in which the probe reports a nonzero
\* overlap with share1 = 0 and share2 = 0 zeroes both x velocities, returns true
\* and changes neither position, blocked faces nor sleeping flags.
C4_AnyCall ==
    (called /\ out.returned /\ collisionInfo.intersects /\ ZeroShares) => ZeroedInPlace

\* C4 as amended: the same, for the calls that get past the early exit (the
\* probe reports an intersection, overlapOnly is not set, the bodies are not
\* both immovable and neither has customSeparateX).
C4_DegenerateContact == (called /\ ~NoSeparation /\ ZeroShares) => ZeroedInPlace

\* A degenerate contact of two bodies with nonzero velocities has been resolved.
C4_Witness ==
    /\ called /\ ~NoSeparation /\ ZeroShares
    /\ pre1.vx # 0 /\ pre2.vx # 0
    /\ body1.vx = 0 /\ body2.vx = 0 /\ out.result

(***************************************************************************)
(* C5                                                                      *)
(***************************************************************************)

\* Two intersecting movable bodies of equal mass and bounce 1 whose nonzero x
\* velocities are equal in magnitude and opposite in sign.
HeadOn ==
    /\ collisionInfo.intersects
    /\ ~IsImmovable(pre1) /\ ~IsImmovable(pre2)
    /\ pre1.mass = pre2.mass
    /\ pre1.vx # 0 /\ pre1.vx = -pre2.vx
    /\ pre1.bounce = Unit /\ pre2.bounce = Unit

\* The committed x velocities are those of before, swapped.
Swapped == body1.vx = pre2.vx /\ body2.vx = pre1.vx

\* C5 as claimed: the x velocities of such a pair are exactly swapped by a call
\* that separates the bodies (one that gets past the early exit).
C5_AnyHeadOn == (called /\ HeadOn /\ ~NoSeparation) => Swapped

\* C5 as amended: they are exactly swapped when the call gets past the early
\* exit and the degenerate contact, neither body is blocked on a face of the
\* X axis, and the speed is not below the minVelocity.x of either body.
C5_HeadOnSwap ==
    ( /\ called /\ HeadOn
      /\ ~NoSeparation /\ ~ZeroShares
      /\ ~IsBlocked(pre1) /\ ~IsBlocked(pre2)
      /\ Abs(pre1.vx) >= pre1.minVelocity /\ Abs(pre2.vx) >= pre2.minVelocity )
    => Swapped

\* A head-on impact has been resolved by swapping the velocities, one of the
\* bodies having been asleep.
C5_Witness ==
    /\ called /\ HeadOn /\ ~NoSeparation /\ ~ZeroShares
    /\ ~IsBlocked(pre1) /\ ~IsBlocked(pre2)
    /\ pre1.vx > 0 /\ pre2.sleeping
    /\ Swapped /\ out.stage = "separated"

(***************************************************************************)
(* C6                                                                      *)
(***************************************************************************)

\* The sample collision: mass1 = 1, v1 = -5, mass2 = 4, v2 = 0, between two
\* intersecting movable bodies.
Sample ==
    /\ collisionInfo.intersects
    /\ ~IsImmovable(pre1) /\ ~IsImmovable(pre2)
    /\ pre1.mass = 1 /\ pre1.vx = -5 * Unit
    /\ pre2.mass = 4 /\ pre2.vx = 0

\* sign(v)
Sign(v) == IF v > 0 THEN 1 ELSE IF v < 0 THEN -1 ELSE 0

\* The square-root formula: sqrt(v^2 * mass / ownMass) * sign(v), and
\* avg + (exchanged - avg) * bounce.
FormulaExchanged(v, mass, ownMass) == Sqrt((v * v * mass) \div ownMass) * Sign(v)
FormulaAvg ==
    (FormulaExchanged(pre2.vx, pre2.mass, pre1.mass)
     + FormulaExchanged(pre1.vx, pre1.mass, pre2.mass)) \div 2
FormulaResolved(exchanged, bounce) ==
    FormulaAvg + Quot((exchanged - FormulaAvg) * bounce, Unit)

\* The velocity of the heavier body (body2) changes by less than that of the
\* lighter body (body1).
HeavierChangesLess == Abs(body2.vx - pre2.vx) < Abs(body1.vx - pre1.vx)

AwayFromFace == IF LeftContact THEN Unit ELSE -Unit

\* Exactly one body is moving and the other one is rideable: body1 moves and
\* body2 carries, or body2 moves and body1 carries.
Rides1 == IsMoving(pre1) /\ ~IsMoving(pre2) /\ pre2.rideable
Rides2 == IsMoving(pre2) /\ ~IsMoving(pre1) /\ pre1.rideable

\* The nudge given to a moving body is committed: the call does not end at the
\* degenerate contact, the body is not blocked on the X axis after the position
\* step, and the unit velocity is neither damped as a flip-flop (a reversal
\* below minVelocity.x of a body that is awake) nor too small to wake the body.
Keeps(body, pre) ==
    /\ ~ZeroShares
    /\ ~IsBlocked(body)
    /\ Unit < pre.minVelocity =>
           /\ ~pre.sleeping
           /\ ~((pre.vx < 0 /\ AwayFromFace > 0) \/ (pre.vx > 0 /\ AwayFromFace < 0))

AwakeUntouched(body, pre, sx, woke) == ~pre.sleeping => (body.vx = sx /\ ~woke)

\* C8 as claimed: a sleeping body is woken only if the magnitude of its resolved
\* velocity is strictly greater than its minVelocity.x, and then keeps that
\* velocity; otherwise its velocity is 0 and it stays asleep.
Hysteresis(body, pre, sx, woke) ==
    /\ pre.sleeping =>
          /\ woke => Abs(sx) > pre.minVelocity
          /\ woke => body.vx = sx
          /\ ~woke => (body.vx = 0 /\ body.sleeping)
    /\ AwakeUntouched(body, pre, sx, woke)

C8_StrictThreshold ==
    (called /\ out.stage = "separated") =>
        /\ Hysteresis(body1, pre1, out.sx1, out.woke1)
        /\ Hysteresis(body2, pre2, out.sx2, out.woke2)

\* C8 as amended: a sleeping body is woken exactly if the magnitude of its
\* resolved velocity is not below its minVelocity.x (greater or equal).
WakesAtThreshold(body, pre, sx, woke) ==
    /\ pre.sleeping =>
          /\ woke <=> Abs(sx) >= pre.minVelocity
          /\ woke => body.vx = sx
          /\ ~woke => (body.vx = 0 /\ body.sleeping)
    /\ AwakeUntouched(body, pre, sx, woke)

C8_SleepHysteresis ==
    (called /\ out.stage = "separated") =>
        /\ WakesAtThreshold(body1, pre1, out.sx1, out.woke1)
        /\ WakesAtThreshold(body2, pre2, out.sx2, out.woke2)

\* A sleeping body whose resolved velocity is exactly its minVelocity.x in
\* magnitude has been woken and keeps that velocity.
C8_Witness ==
    /\ called /\ out.stage = "separated"
    /\ pre1.sleeping /\ out.woke1
    /\ Abs(out.sx1) = pre1.minVelocity /\ body1.vx = out.sx1

(***************************************************************************)
(* C9                                                                      *)
(***************************************************************************)

\* A body is translated at most once, along x by its share, and not along y.
AlongX(body, pre, moved, share) ==
    /\ moved <= 1
    /\ body.x = pre.x + moved * share
    /\ body.y = pre.y

\* C9: a call translates a body at most once, changes its x coordinate by its
\* share of the overlap (share1 for body1, share2 for body2) when it does, and
\* leaves its y coordinate as it was.
C9_AxisOnly ==
    called =>
        /\ AlongX(body1, pre1, out.moved1, collisionInfo.share1)
        /\ AlongX(body2, pre2, out.moved2, collisionInfo.share2)

(***************************************************************************)
(* C10                                                                     *)
(***************************************************************************)

\* The mirror image of a body: x velocity negated, blocked faces exchanged.
Mirror(body) ==
    [body EXCEPT !.vx = -body.vx,
                 !.blockedLeft = body.blockedRight,
                 !.blockedRight = body.blockedLeft]

\* The mirror image of a probe result: the opposite contact face.
MirrorInfo(c) ==
    [c EXCEPT !.face = IF c.face = FACING_LEFT THEN FACING_RIGHT ELSE FACING_LEFT]

\* The mirrored call of the last call.
Mirrored ==
    SeparateX(Mirror(pre1), Mirror(pre2), overlapOnly, MirrorInfo(collisionInfo),
              out.returned)

\* C10: the last call and its mirrored call return the same value, commit x
\* velocities that are negations of each other, translate the same bodies,
\* wake the same bodies and set blocked on mirrored faces.
C10_MirrorSymmetry ==
    called =>
        LET m == Mirrored
        IN  /\ m.out.returned = out.returned
            /\ m.out.result = out.result
            /\ m.body1.vx = -body1.vx
            /\ m.body2.vx = -body2.vx
            /\ m.out.moved1 = out.moved1
            /\ m.out.moved2 = out.moved2
            /\ m.out.woke1 = out.woke1
            /\ m.out.woke2 = out.woke2
            /\ m.out.setLeft1 = out.setRight1 /\ m.out.setRight1 = out.setLeft1
            /\ m.out.setLeft2 = out.setRight2 /\ m.out.setRight2 = out.setLeft2
            /\ m.body1.blockedLeft = body1.blockedRight
            /\ m.body1.blockedRight = body1.blockedLeft
            /\ m.body2.blockedLeft = body2.blockedRight
            /\ m.body2.blockedRight = body2.blockedLeft

====
